---- MODULE Spec2Model ----
(***************************************************************************)
(* Model of wxcc_graphql_sqlite.js: the SQLiteManager ingest methods       *)
(* (insertTasks, insertAgentSessions, insertAgentActivities,               *)
(* insertAggregations), the WebexCCDataExtractor passes and main().        *)
(*                                                                         *)
(* JavaScript values are tagged records (k = kind), SQLite values too.     *)
(* Every db.run is two steps: the statement is issued (appended to         *)
(* inflight) and later settled by the engine, successfully or not.         *)
(***************************************************************************)
EXTENDS Integers, Sequences, FiniteSets, TLC

VARIABLES
    store,      \* table name -> sequence of rows (rowid order); DOMAIN = existing tables
    now,        \* logical clock: number of statements the engine has settled
    inflight,   \* statements handed to db.run whose callback has not fired yet
    settled,    \* result of the last db.run callback: "none", "ok" or "err"
    pc,         \* position of the running ingest method, "idle" when none runs
    op,         \* the top-level ingest method that is running (or ran last)
    args,       \* its arguments
    i,          \* index of the outer for-of loop
    j,          \* index of the inner for-of loop
    chan,       \* insertAgentSessions: the normalized channelInfo of the current session
    outcome,    \* how the last ingest call ended: "none", "ok" or "error"
    snap,       \* store when the running ingest call started
    log,        \* events of the current call (or of the current run of main)
    runs,       \* rerun scenario: number of insertTasks runs started
    mainpc,     \* position of main(), "api" when the methods are called directly
    result,     \* main: the result tree of the current pass's query
    handle,     \* main: how often the SQLiteManager was created, its database opened, close() called
    counts,     \* main: the counts the passes returned
    k,          \* main: index of the loop of extractTaskAggregations
    exitCode    \* main: -1 while running, else the process exit code

vars == <<store, now, inflight, settled, pc, op, args, i, j, chan, outcome, snap,
          log, runs, mainpc, result, handle, counts, k, exitCode>>

(***************************************************************************)
(* Bounds of the model.                                                    *)
(***************************************************************************)
MaxRows == 4       \* row writes one input of a rerun call asks for
MaxLen == 2        \* top-level records in one input of a rerun call
MaxRuns == 2       \* runs of the same call in the rerun scenario
MaxCalls == 2      \* calls in a sequence of calls

(***************************************************************************)
(* JavaScript / JSON values.                                               *)
(***************************************************************************)
Undefined == [k |-> "undefined"]
JNull == [k |-> "null"]
JStr(s) == [k |-> "str", v |-> s]
JNum(n) == [k |-> "num", v |-> n]
JBool(b) == [k |-> "bool", v |-> b]
JObj(f) == [k |-> "obj", v |-> f]
JArr(s) == [k |-> "arr", v |-> s]
EmptyObj == JObj(<<>>)

\* o.key: undefined when the key is absent or o is a primitive; reading a
\* property of null or undefined throws a TypeError (see Throws).
Get(o, key) ==
    IF o.k = "obj" /\ key \in DOMAIN o.v THEN o.v[key] ELSE Undefined

\* Whether o.key throws a TypeError.
Throws(o) == o.k \in {"null", "undefined"}

\* o?.key
OptGet(o, key) == IF Throws(o) THEN Undefined ELSE Get(o, key)

\* JavaScript truthiness.
Truthy(x) ==
    CASE x.k \in {"undefined", "null"} -> FALSE
      [] x.k = "bool" -> x.v
      [] x.k = "num" -> x.v # 0
      [] x.k = "str" -> x.v # ""
      [] OTHER -> TRUE

\* a || b
Or(a, b) == IF Truthy(a) THEN a ELSE b

\* typeof x === 'object' (true of null, arrays and objects)
TypeofObject(x) == x.k \in {"null", "obj", "arr"}

\* The order in which object keys are serialized is the order of the keys in
\* the result tree, which is the order of the fields in the GraphQL query.
\* KeyOrder: the taskDetails query (a task, its activities), followed by the
\* fields only the other queries have.
KeyOrder ==
    <<"id", "activities", "totalCount", "nodes",
      "isActive", "createdTime", "endedTime", "agentId", "agentName",
      "agentPhoneNumber", "agentSessionId", "agentChannelId", "entrypointId",
      "entrypointName", "queueId", "queueName", "userLoginId", "siteId", "siteName",
      "teamId", "teamName", "transferType", "activityType", "activityName",
      "eventName", "previousState", "nextState", "consultEpId", "consultEpName",
      "childContactId", "childContactType",
      "channelInfo", "channelId", "channelType", "subChannelType",
      "startTime", "endTime", "duration",
      "destinationAgentPhoneNumber", "destinationAgentId", "destinationAgentName",
      "destinationAgentSessionId", "destinationAgentChannelId",
      "destinationAgentTeamId", "destinationAgentTeamName",
      "destinationQueueName", "destinationQueueId", "terminationReason",
      "ivrScriptId", "ivrScriptName", "ivrScriptTagId", "ivrScriptTagName",
      "lastActivityTime", "skillsAssignedIn",
      "state", "idleCode", "taskId", "queue",
      "wrapupCode", "isOutdial", "name", "value", "owner", "aggregation">>

RECURSIVE JoinStrings(_)
JoinStrings(ss) ==
    IF ss = <<>> THEN ""
    ELSE IF Len(ss) = 1 THEN ss[1]
    ELSE ss[1] \o "," \o JoinStrings(Tail(ss))

RECURSIVE SelectKeys(_, _)
SelectKeys(keys, f) ==
    IF keys = <<>> THEN <<>>
    ELSE (IF keys[1] \in DOMAIN f THEN <<keys[1]>> ELSE <<>>) \o SelectKeys(Tail(keys), f)

\* SessionKeyOrder: the agentSession query (a session, its channel, the
\* channel's activities), followed by the fields of an aggregation.
SessionKeyOrder ==
    <<"agentSessionId", "agentId", "agentName", "userLoginId", "siteId", "siteName",
      "teamId", "teamName", "channelInfo", "channelId", "channelType",
      "agentPhoneNumber", "subChannelType", "activities", "totalCount", "nodes",
      "startTime", "endTime", "duration", "state", "idleCode", "taskId", "queue",
      "wrapupCode", "isOutdial", "name", "value", "owner", "aggregation">>

\* The keys of an object in their order. The objects of the taskDetails
\* result that are serialized (tasks and their activities) carry an id; the
\* sessions and channels of the agentSession result carry none.
ObjectKeys(f) ==
    SelectKeys(IF "id" \in DOMAIN f THEN KeyOrder ELSE SessionKeyOrder, f)

\* JSON.stringify(x), as text.
RECURSIVE JsonText(_)
JsonText(x) ==
    CASE x.k = "null" -> "null"
      [] x.k = "str" -> "\"" \o x.v \o "\""
      [] x.k = "num" -> ToString(x.v)
      [] x.k = "bool" -> (IF x.v THEN "true" ELSE "false")
      [] x.k = "arr" ->
            "[" \o JoinStrings([n \in 1..Len(x.v) |-> JsonText(x.v[n])]) \o "]"
      [] x.k = "obj" ->
            LET ks == ObjectKeys(x.v)
            IN "{" \o JoinStrings([n \in 1..Len(ks) |->
                        "\"" \o ks[n] \o "\":" \o JsonText(x.v[ks[n]])]) \o "}"

JSONstringify(x) == JStr(JsonText(x))

(***************************************************************************)
(* SQLite values, schema and statements.                                   *)
(***************************************************************************)
SNull == [k |-> "NULL"]
SText(s) == [k |-> "TEXT", v |-> s]
SInt(n) == [k |-> "INTEGER", v |-> n]
STime(t) == [k |-> "TIMESTAMP", v |-> t]

\* How the driver binds a JavaScript parameter: undefined and null as NULL,
\* booleans as 0/1, strings and numbers as they are.
BindParam(x) ==
    CASE x.k \in {"undefined", "null"} -> SNull
      [] x.k = "str" -> SText(x.v)
      [] x.k = "num" -> SInt(x.v)
      [] x.k = "bool" -> SInt(IF x.v THEN 1 ELSE 0)

TaskColumns == <<"id", "created_at", "raw_data">>

TaskActivityColumns ==
    <<"id", "task_id", "is_active", "created_time", "ended_time", "agent_id",
      "agent_name", "agent_phone_number", "agent_session_id", "agent_channel_id",
      "entrypoint_id", "entrypoint_name", "queue_id", "queue_name", "site_id",
      "site_name", "team_id", "team_name", "transfer_type", "activity_type",
      "activity_name", "event_name", "previous_state", "next_state",
      "consult_ep_id", "consult_ep_name", "child_contact_id", "child_contact_type",
      "duration", "destination_agent_phone_number", "destination_agent_id",
      "destination_agent_name", "destination_agent_session_id",
      "destination_agent_channel_id", "destination_agent_team_id",
      "destination_agent_team_name", "destination_queue_name",
      "destination_queue_id", "termination_reason", "ivr_script_id",
      "ivr_script_name", "ivr_script_tag_id", "ivr_script_tag_name",
      "last_activity_time", "skills_assigned_in", "created_at", "raw_data">>

AgentSessionColumns ==
    <<"agent_session_id", "agent_id", "agent_name", "user_login_id", "site_id",
      "site_name", "team_id", "team_name", "channel_id", "channel_type",
      "agent_phone_number", "sub_channel_type", "created_at", "raw_data">>

AgentActivityColumns ==
    <<"id", "agent_session_id", "agent_id", "start_time", "end_time", "duration",
      "state", "idle_code_id", "idle_code_name", "task_id", "queue_id",
      "queue_name", "wrapup_code_id", "wrapup_code_name", "is_outdial",
      "outbound_type", "is_current_activity", "is_login_activity",
      "is_logout_activity", "changed_by_id", "changed_by_name", "created_at",
      "raw_data">>

TaskAggregationColumns ==
    <<"id", "query_name", "aggregation_name", "aggregation_value", "time_start",
      "time_end", "group_by_field", "group_by_value", "created_at">>

\* The five CREATE TABLE IF NOT EXISTS statements, in the order they are run.
createTablesQueries ==
    <<"tasks", "task_activities", "agent_sessions", "agent_activities",
      "task_aggregations">>

Tables == {createTablesQueries[n] : n \in 1..Len(createTablesQueries)}

Columns(t) ==
    CASE t = "tasks" -> TaskColumns
      [] t = "task_activities" -> TaskActivityColumns
      [] t = "agent_sessions" -> AgentSessionColumns
      [] t = "agent_activities" -> AgentActivityColumns
      [] t = "task_aggregations" -> TaskAggregationColumns

\* The PRIMARY KEY column of each table.
PrimaryKey(t) == IF t = "agent_sessions" THEN "agent_session_id" ELSE "id"

\* INTEGER PRIMARY KEY AUTOINCREMENT
AutoIncrement(t) == t \in {"agent_activities", "task_aggregations"}

Range(s) == {s[n] : n \in 1..Len(s)}

IndexOf(s, x) == CHOOSE n \in 1..Len(s) : s[n] = x

RECURSIVE SelectRows(_, _, _)
\* The rows of a table whose column c differs from v, in rowid order.
SelectRows(rows, c, v) ==
    IF rows = <<>> THEN <<>>
    ELSE (IF rows[1][c] = v THEN <<>> ELSE <<rows[1]>>) \o SelectRows(Tail(rows), c, v)

\* The row an INSERT of columns cols with bound parameters params creates at
\* time t: a column the statement does not name gets its DEFAULT (the next
\* rowid for an AUTOINCREMENT key, CURRENT_TIMESTAMP for created_at, else NULL);
\* a column it names gets the bound value, an explicit NULL included.
NewRow(rows, stmt, t) ==
    [c \in Range(Columns(stmt.table)) |->
        IF c \in Range(stmt.cols)
        THEN BindParam(stmt.params[IndexOf(stmt.cols, c)])
        ELSE IF c = PrimaryKey(stmt.table) /\ AutoIncrement(stmt.table)
             THEN SInt(Len(rows) + 1)
        ELSE IF c = "created_at" THEN STime(t)
        ELSE SNull]

\* Whether the row collides with an existing row on the primary key (NULL keys
\* never collide).
Conflicts(rows, t, row) ==
    /\ row[PrimaryKey(t)] # SNull
    /\ \E n \in 1..Len(rows) : rows[n][PrimaryKey(t)] = row[PrimaryKey(t)]

\* The table after the statement ran at time t. conflict is the statement's
\* conflict clause: "REPLACE" (INSERT OR REPLACE), "IGNORE" or "ABORT" (plain).
ApplyInsert(rows, stmt, t) ==
    LET row == NewRow(rows, stmt, t)
        pk == PrimaryKey(stmt.table)
    IN IF ~Conflicts(rows, stmt.table, row) THEN Append(rows, row)
       ELSE IF stmt.conflict = "REPLACE" THEN Append(SelectRows(rows, pk, row[pk]), row)
       ELSE rows

\* Whether the engine must reject the statement: an INSERT into a table that
\* does not exist, or a plain INSERT that collides on the primary key. (CREATE
\* TABLE IF NOT EXISTS has no such case.)
MustFail(st, stmt) ==
    /\ stmt.kind = "insert"
    /\ \/ stmt.table \notin DOMAIN st
       \/ /\ stmt.conflict = "ABORT"
          /\ Conflicts(st[stmt.table], stmt.table, NewRow(st[stmt.table], stmt, 0))

\* Variant: the schema is rebuilt, DROP TABLE IF EXISTS before each CREATE TABLE.
ExecuteDropCreate(st, stmt, t) ==
    IF stmt.kind = "create"
    THEN [x \in DOMAIN st \cup {stmt.table} |->
             IF x = stmt.table THEN <<>> ELSE st[x]]
    ELSE [st EXCEPT ![stmt.table] = ApplyInsert(@, stmt, t)]

\* The store after the engine ran the statement successfully at time t.
Execute(st, stmt, t) ==
    IF stmt.kind = "create"
    THEN IF stmt.table \in DOMAIN st THEN st
         ELSE [x \in DOMAIN st \cup {stmt.table} |->
                  IF x = stmt.table THEN <<>> ELSE st[x]]
    ELSE [st EXCEPT ![stmt.table] = ApplyInsert(@, stmt, t)]

(***************************************************************************)
(* The statements of the ingest methods.                                   *)
(***************************************************************************)
\* Variant: queueName and queueId in each other's place in the parameter list.
TaskActivityFieldsSwapped ==
    <<"isActive", "createdTime", "endedTime", "agentId", "agentName",
      "agentPhoneNumber", "agentSessionId", "agentChannelId", "entrypointId",
      "entrypointName", "queueName", "queueId", "siteId", "siteName", "teamId",
      "teamName", "transferType", "activityType", "activityName", "eventName",
      "previousState", "nextState", "consultEpId", "consultEpName",
      "childContactId", "childContactType", "duration",
      "destinationAgentPhoneNumber", "destinationAgentId", "destinationAgentName",
      "destinationAgentSessionId", "destinationAgentChannelId",
      "destinationAgentTeamId", "destinationAgentTeamName",
      "destinationQueueName", "destinationQueueId", "terminationReason",
      "ivrScriptId", "ivrScriptName", "ivrScriptTagId", "ivrScriptTagName",
      "lastActivityTime", "skillsAssignedIn">>

\* The activity fields bound to columns 3..45 of the task_activities INSERT,
\* in the order of the parameter list.
TaskActivityFields ==
    <<"isActive", "createdTime", "endedTime", "agentId", "agentName",
      "agentPhoneNumber", "agentSessionId", "agentChannelId", "entrypointId",
      "entrypointName", "queueId", "queueName", "siteId", "siteName", "teamId",
      "teamName", "transferType", "activityType", "activityName", "eventName",
      "previousState", "nextState", "consultEpId", "consultEpName",
      "childContactId", "childContactType", "duration",
      "destinationAgentPhoneNumber", "destinationAgentId", "destinationAgentName",
      "destinationAgentSessionId", "destinationAgentChannelId",
      "destinationAgentTeamId", "destinationAgentTeamName",
      "destinationQueueName", "destinationQueueId", "terminationReason",
      "ivrScriptId", "ivrScriptName", "ivrScriptTagId", "ivrScriptTagName",
      "lastActivityTime", "skillsAssignedIn">>

\* Variant: INSERT OR IGNORE INTO tasks, which keeps the row already stored.
TaskInsertOrIgnore(task, ii) ==
    [kind |-> "insert", table |-> "tasks", conflict |-> "IGNORE", i |-> ii, j |-> 0,
     cols |-> <<"id", "raw_data">>,
     params |-> <<Get(task, "id"), JSONstringify(task)>>]

\* INSERT OR REPLACE INTO tasks (id, raw_data) VALUES (?, ?)
TaskInsert(task, ii) ==
    [kind |-> "insert", table |-> "tasks", conflict |-> "REPLACE", i |-> ii, j |-> 0,
     cols |-> <<"id", "raw_data">>,
     params |-> <<Get(task, "id"), JSONstringify(task)>>]

\* Variant: the first two parameters in the other order (the task's id bound
\* to id, the activity's id to task_id).
TaskActivityInsertIdsSwapped(task, activity, ii, jj) ==
    [kind |-> "insert", table |-> "task_activities", conflict |-> "REPLACE",
     i |-> ii, j |-> jj,
     cols |-> TaskActivityColumns,
     params |-> <<Get(task, "id"), Get(activity, "id")>>
                \o [n \in 1..Len(TaskActivityFields) |->
                        Get(activity, TaskActivityFields[n])]
                \o <<JNull, JSONstringify(activity)>>]

\* Variant: the snapshot of the task, not of the activity, bound to raw_data.
TaskActivityInsertTaskSnapshot(task, activity, ii, jj) ==
    [kind |-> "insert", table |-> "task_activities", conflict |-> "REPLACE",
     i |-> ii, j |-> jj,
     cols |-> TaskActivityColumns,
     params |-> <<Get(activity, "id"), Get(task, "id")>>
                \o [n \in 1..Len(TaskActivityFields) |->
                        Get(activity, TaskActivityFields[n])]
                \o <<JNull, JSONstringify(task)>>]

\* INSERT OR REPLACE INTO task_activities (47 columns) VALUES (47 parameters)
TaskActivityInsert(task, activity, ii, jj) ==
    [kind |-> "insert", table |-> "task_activities", conflict |-> "REPLACE",
     i |-> ii, j |-> jj,
     cols |-> TaskActivityColumns,
     params |-> <<Get(activity, "id"), Get(task, "id")>>
                \o [n \in 1..Len(TaskActivityFields) |->
                        Get(activity, TaskActivityFields[n])]
                \o <<JNull, JSONstringify(activity)>>]

\* Variant: an absent channel field is stored as the empty string
\* (channelInfo.channelId || '').
AgentSessionInsertBlank(session, channelInfo, ii) ==
    [kind |-> "insert", table |-> "agent_sessions", conflict |-> "REPLACE",
     i |-> ii, j |-> 0,
     cols |-> <<"agent_session_id", "agent_id", "agent_name", "user_login_id",
                "site_id", "site_name", "team_id", "team_name", "channel_id",
                "channel_type", "agent_phone_number", "sub_channel_type", "raw_data">>,
     params |-> <<Get(session, "agentSessionId"), Get(session, "agentId"),
                  Get(session, "agentName"), Get(session, "userLoginId"),
                  Get(session, "siteId"), Get(session, "siteName"),
                  Get(session, "teamId"), Get(session, "teamName"),
                  Or(Get(channelInfo, "channelId"), JStr("")),
                  Or(Get(channelInfo, "channelType"), JStr("")),
                  Or(Get(channelInfo, "agentPhoneNumber"), JStr("")),
                  Or(Get(channelInfo, "subChannelType"), JStr("")),
                  JSONstringify(session)>>]

\* INSERT OR REPLACE INTO agent_sessions (13 columns) VALUES (13 parameters)
AgentSessionInsert(session, channelInfo, ii) ==
    [kind |-> "insert", table |-> "agent_sessions", conflict |-> "REPLACE",
     i |-> ii, j |-> 0,
     cols |-> <<"agent_session_id", "agent_id", "agent_name", "user_login_id",
                "site_id", "site_name", "team_id", "team_name", "channel_id",
                "channel_type", "agent_phone_number", "sub_channel_type", "raw_data">>,
     params |-> <<Get(session, "agentSessionId"), Get(session, "agentId"),
                  Get(session, "agentName"), Get(session, "userLoginId"),
                  Get(session, "siteId"), Get(session, "siteName"),
                  Get(session, "teamId"), Get(session, "teamName"),
                  Get(channelInfo, "channelId"), Get(channelInfo, "channelType"),
                  Get(channelInfo, "agentPhoneNumber"),
                  Get(channelInfo, "subChannelType"),
                  JSONstringify(session)>>]

\* Variant: an upsert keyed by the activity's start time
\* (INSERT OR REPLACE with id bound to activity.startTime).
AgentActivityInsertUpsert(agentSessionId, activity, ii, jj) ==
    [kind |-> "insert", table |-> "agent_activities", conflict |-> "REPLACE",
     i |-> ii, j |-> jj,
     cols |-> <<"id", "agent_session_id", "start_time", "state", "raw_data">>,
     params |-> <<Get(activity, "startTime"), agentSessionId,
                  Get(activity, "startTime"), Get(activity, "state"),
                  JSONstringify(activity)>>]

\* INSERT INTO agent_activities (21 columns) VALUES (21 parameters)
AgentActivityInsert(agentSessionId, activity, ii, jj) ==
    [kind |-> "insert", table |-> "agent_activities", conflict |-> "ABORT",
     i |-> ii, j |-> jj,
     cols |-> <<"agent_session_id", "agent_id", "start_time", "end_time",
                "duration", "state", "idle_code_id", "idle_code_name", "task_id",
                "queue_id", "queue_name", "wrapup_code_id", "wrapup_code_name",
                "is_outdial", "outbound_type", "is_current_activity",
                "is_login_activity", "is_logout_activity", "changed_by_id",
                "changed_by_name", "raw_data">>,
     params |-> <<agentSessionId, Get(activity, "agentId"),
                  Get(activity, "startTime"), Get(activity, "endTime"),
                  Get(activity, "duration"), Get(activity, "state"),
                  OptGet(Get(activity, "idleCode"), "id"),
                  OptGet(Get(activity, "idleCode"), "name"),
                  Get(activity, "taskId"),
                  OptGet(Get(activity, "queue"), "id"),
                  OptGet(Get(activity, "queue"), "name"),
                  OptGet(Get(activity, "wrapupCode"), "id"),
                  OptGet(Get(activity, "wrapupCode"), "name"),
                  Get(activity, "isOutdial"), Get(activity, "outboundType"),
                  Get(activity, "isCurrentActivity"),
                  Get(activity, "isLoginActivity"),
                  Get(activity, "isLogoutActivity"),
                  Get(activity, "changedById"), Get(activity, "changedByName"),
                  JSONstringify(activity)>>]

\* INSERT INTO task_aggregations (7 columns) VALUES (7 parameters)
AggregationInsert(a, aggregation, ii) ==
    [kind |-> "insert", table |-> "task_aggregations", conflict |-> "ABORT",
     i |-> ii, j |-> 0,
     cols |-> <<"query_name", "aggregation_name", "aggregation_value",
                "time_start", "time_end", "group_by_field", "group_by_value">>,
     params |-> <<a.queryName, Get(aggregation, "name"), Get(aggregation, "value"),
                  a.timeStart, a.timeEnd,
                  Or(OptGet(a.groupByData, "field"), JNull),
                  Or(OptGet(a.groupByData, "value"), JNull)>>]

\* CREATE TABLE IF NOT EXISTS <table> (...)
CreateTable(n) ==
    [kind |-> "create", table |-> createTablesQueries[n], i |-> n, j |-> 0]

\* Variant: the last element of a list, not the first.
NormalizeChannelInfoLast(session) ==
    LET channelInfo == Or(Get(session, "channelInfo"), JArr(<<>>))
    IN IF channelInfo.k = "arr" /\ Len(channelInfo.v) > 0
       THEN channelInfo.v[Len(channelInfo.v)]
       ELSE IF ~Truthy(channelInfo) \/ ~TypeofObject(channelInfo) THEN EmptyObj
       ELSE channelInfo

\* The channel normalization at the head of the insertAgentSessions loop.
NormalizeChannelInfo(session) ==
    LET channelInfo == Or(Get(session, "channelInfo"), JArr(<<>>))
    IN IF channelInfo.k = "arr" /\ Len(channelInfo.v) > 0 THEN channelInfo.v[1]
       ELSE IF ~Truthy(channelInfo) \/ ~TypeofObject(channelInfo) THEN EmptyObj
       ELSE channelInfo

\* task.activities && task.activities.nodes (also channelInfo.activities && ...):
\* the guard of the nested loop, with short-circuit evaluation.
HasNodes(o) ==
    /\ Truthy(Get(o, "activities"))
    /\ Truthy(Get(Get(o, "activities"), "nodes"))

\* The array the nested for-of loop walks (the inputs keep nodes an array).
Nodes(o) == Get(Get(o, "activities"), "nodes").v

(***************************************************************************)
(* Inputs: the result trees the query source can return.                   *)
(***************************************************************************)
\* Activity objects of a task; the first two share their id.
Activity1 == JObj([id |-> JStr("A1"), agentId |-> JStr("AG1"), duration |-> JNum(30)])
Activity1b == JObj([id |-> JStr("A1"), isActive |-> JBool(TRUE), agentId |-> JStr("AG2")])
Activity2 == JObj([id |-> JStr("A2")])

TaskObj(t, ns) == JObj([id |-> JStr(t), activities |-> JObj([nodes |-> JArr(ns)])])

\* Task objects, each with its weight (the number of row writes it causes):
\* without an activities field, with activities that carry no nodes, and with
\* 0, 1 or 2 nodes, the same task or activity id occurring more than once.
TaskItems ==
    { [o |-> JObj([id |-> JStr("T1")]), w |-> 1],
      [o |-> JObj([id |-> JStr("T2"), activities |-> JObj([totalCount |-> JNum(0)])]),
       w |-> 1],
      [o |-> TaskObj("T1", <<>>), w |-> 1],
      [o |-> TaskObj("T1", <<Activity1>>), w |-> 2],
      [o |-> TaskObj("T2", <<Activity1b>>), w |-> 2],
      [o |-> TaskObj("T1", <<Activity1, Activity1b>>), w |-> 3],
      [o |-> TaskObj("T2", <<Activity2, Activity1>>), w |-> 3] }

AgentActivity1 ==
    JObj([startTime |-> JNum(100), endTime |-> JNum(200), duration |-> JNum(100),
          state |-> JStr("Idle"),
          idleCode |-> JObj([id |-> JStr("I1"), name |-> JStr("Break")])])

AgentActivity2 ==
    JObj([startTime |-> JNum(200), state |-> JStr("Connected"),
          taskId |-> JStr("T1"), isOutdial |-> JBool(FALSE)])

Channel1 ==
    JObj([channelId |-> JStr("C1"), channelType |-> JStr("telephony"),
          agentPhoneNumber |-> JStr("555"),
          activities |-> JObj([nodes |-> JArr(<<AgentActivity1, AgentActivity2>>)])])

Channel2 ==
    JObj([channelId |-> JStr("C2"), channelType |-> JStr("chat"),
          subChannelType |-> JStr("web"),
          activities |-> JObj([nodes |-> JArr(<<AgentActivity2>>)])])

Channel3 == JObj([channelId |-> JStr("C3")])

SessionObj(sid, ci) ==
    IF ci = Undefined
    THEN JObj([agentSessionId |-> JStr(sid), agentId |-> JStr("AG1")])
    ELSE JObj([agentSessionId |-> JStr(sid), agentId |-> JStr("AG1"),
               channelInfo |-> ci])

\* Session objects, one per shape of channelInfo (Undefined: the field is
\* absent), each with its weight.
SessionItems ==
    { [o |-> SessionObj("S1", Undefined), w |-> 1],
      [o |-> SessionObj("S1", JNull), w |-> 1],
      [o |-> SessionObj("S2", JStr("telephony")), w |-> 1],
      [o |-> SessionObj("S1", Channel1), w |-> 3],
      [o |-> SessionObj("S2", JArr(<<>>)), w |-> 1],
      [o |-> SessionObj("S1", JArr(<<Channel2, Channel1>>)), w |-> 2],
      [o |-> SessionObj("S2", JArr(<<Channel3, Channel1>>)), w |-> 1],
      [o |-> SessionObj("S1", JArr(<<JNull, Channel1>>)), w |-> 1],
      [o |-> SessionObj("S2", JArr(<<JStr("telephony"), Channel1>>)), w |-> 1] }

Metric1 == JObj([name |-> JStr("Total Contacts Handled"), value |-> JNum(42)])
Metric2 == JObj([name |-> JStr("Average Talk Time"), value |-> JNum(0)])

MetricItems == { [o |-> Metric1, w |-> 1], [o |-> Metric2, w |-> 1] }

\* groupByData: null (the default) or a {field, value} pair.
GroupBys ==
    { JNull,
      JObj([field |-> JStr("owner_id"), value |-> JStr("AG1")]),
      JObj([field |-> JStr("owner_id"), value |-> JStr("")]) }

RECURSIVE Packs(_, _, _)
\* The sequences of at most n items whose weights sum to at most w.
Packs(items, n, w) ==
    IF n = 0 THEN {<<>>}
    ELSE {<<>>} \cup
         UNION { { <<it.o>> \o s : s \in Packs(items, n - 1, w - it.w) } :
                 it \in {x \in items : x.w <= w} }

AggregationArgs(ms, g) ==
    [queryName |-> JStr("task_statistics_by_agent"), aggregations |-> ms,
     timeStart |-> JNum(1000), timeEnd |-> JNum(2000), groupByData |-> g]

\* The arguments of a call of insertAgentActivities on its own.
ActivityInputs ==
    { [agentSessionId |-> JStr("S1"), activitiesData |-> as] :
        as \in Packs({[o |-> AgentActivity1, w |-> 1], [o |-> AgentActivity2, w |-> 1]},
                     MaxLen, MaxRows) }

\* The inputs of one call.
TaskInputs == Packs(TaskItems, MaxLen, MaxRows)
SessionInputs == Packs(SessionItems, MaxLen, MaxRows)
AggregationInputs ==
    { AggregationArgs(ms, g) : ms \in Packs(MetricItems, MaxLen, MaxRows), g \in GroupBys }

\* The inputs of the calls of a sequence of calls: one record each (or none).
TaskSamples ==
    { <<>>, <<JObj([id |-> JStr("T1")])>>, <<TaskObj("T1", <<Activity1, Activity2>>)>>,
      <<TaskObj("T2", <<Activity1b>>)>> }
SessionSamples ==
    { <<SessionObj("S1", Undefined)>>, <<SessionObj("S1", JArr(<<Channel2, Channel1>>))>>,
      <<SessionObj("S2", Channel1)>>, <<SessionObj("S2", JArr(<<JNull, Channel1>>))>> }
AggregationSamples ==
    { AggregationArgs(<<Metric1>>, JNull),
      AggregationArgs(<<Metric1, Metric2>>, JObj([field |-> JStr("owner_id"),
                                                   value |-> JStr("AG1")])) }

(***************************************************************************)
(* runQuery and the steps of the ingest methods. A step is the code from   *)
(* one resumption (the call, or the return of an await) to the next        *)
(* db.run, return or throw.                                                *)
(***************************************************************************)
Ev(e, t, ii, jj) == [ev |-> e, table |-> t, i |-> ii, j |-> jj]

mainVars == <<mainpc, result, handle, counts, k, exitCode>>

\* Variant: runQuery called without await, the method goes on at once.
NotAwaited == TRUE

\* await: the method resumes once the statement it issued has settled.
Awaited == inflight = <<>>

\* runQuery: hand the statement to db.run; the promise settles in dbRunCallback.
runQuery(lg, stmt, label) ==
    /\ inflight' = Append(inflight, stmt)
    /\ settled' = "none"
    /\ pc' = label
    /\ outcome' = outcome
    /\ log' = Append(lg, Ev("issue", stmt.table, stmt.i, stmt.j))

\* The running method returns (o = "ok") or throws (o = "error").
End(lg, o) ==
    /\ pc' = "idle"
    /\ outcome' = o
    /\ log' = Append(lg, Ev(IF o = "ok" THEN "return" ELSE "throw", "-", 0, 0))
    /\ UNCHANGED <<inflight, settled>>

\* Variant: the writes of a call run in a transaction that a failure rolls back.
dbRunCallbackRollback ==
    /\ inflight # <<>>
    /\ LET stmt == Head(inflight)
       IN /\ inflight' = Tail(inflight)
          /\ now' = now + 1
          /\ \/ /\ ~MustFail(store, stmt)
                /\ store' = Execute(store, stmt, now + 1)
                /\ settled' = "ok"
                /\ log' = Append(log, Ev("ok", stmt.table, stmt.i, stmt.j))
             \/ /\ store' = snap
                /\ settled' = "err"
                /\ log' = Append(log, Ev("err", stmt.table, stmt.i, stmt.j))
    /\ UNCHANGED <<pc, op, args, i, j, chan, outcome, snap, runs>>
    /\ UNCHANGED mainVars

\* The callback of db.run: the engine ran the oldest statement in flight, and
\* resolves or rejects its promise. Any statement may fail (I/O error, full
\* disk, locked file); some must.
dbRunCallback ==
    /\ inflight # <<>>
    /\ LET stmt == Head(inflight)
       IN /\ inflight' = Tail(inflight)
          /\ now' = now + 1
          /\ \/ /\ ~MustFail(store, stmt)
                /\ store' = Execute(store, stmt, now + 1)
                /\ settled' = "ok"
                /\ log' = Append(log, Ev("ok", stmt.table, stmt.i, stmt.j))
             \/ /\ store' = store
                /\ settled' = "err"
                /\ log' = Append(log, Ev("err", stmt.table, stmt.i, stmt.j))
    /\ UNCHANGED <<pc, op, args, i, j, chan, outcome, snap, runs>>
    /\ UNCHANGED mainVars

\* insertTasks: the head of the outer loop, at task ii.
NextTaskStep(tasksData, ii, lg) ==
    /\ i' = ii
    /\ j' = 0
    /\ IF ii <= Len(tasksData)
       THEN runQuery(lg, TaskInsert(tasksData[ii], ii), "IT_task")
       ELSE End(lg, "ok")

\* insertTasks: the write of the task row returned.
insertTasks_TaskDone ==
    /\ pc = "IT_task"
    /\ Awaited
    /\ LET task == args.tasksData[i]
       IN IF settled = "err" THEN End(log, "error") /\ UNCHANGED <<i, j>>
          ELSE IF HasNodes(task) /\ Len(Nodes(task)) >= 1
               THEN /\ runQuery(log, TaskActivityInsert(task, Nodes(task)[1], i, 1),
                                "IT_activity")
                    /\ i' = i
                    /\ j' = 1
               ELSE NextTaskStep(args.tasksData, i + 1, log)
    /\ UNCHANGED <<store, now, op, args, chan, snap, runs>>
    /\ UNCHANGED mainVars

\* insertTasks: the write of an activity row returned.
insertTasks_ActivityDone ==
    /\ pc = "IT_activity"
    /\ Awaited
    /\ LET task == args.tasksData[i]
       IN IF settled = "err" THEN End(log, "error") /\ UNCHANGED <<i, j>>
          ELSE IF j + 1 <= Len(Nodes(task))
               THEN /\ runQuery(log, TaskActivityInsert(task, Nodes(task)[j + 1], i, j + 1),
                                "IT_activity")
                    /\ i' = i
                    /\ j' = j + 1
               ELSE NextTaskStep(args.tasksData, i + 1, log)
    /\ UNCHANGED <<store, now, op, args, chan, snap, runs>>
    /\ UNCHANGED mainVars

\* insertAgentSessions: the head of the loop, at session ii: normalize the
\* channel, then write the session row. Reading channelId of a null channel
\* throws.
NextSessionStep(sessionsData, ii, lg) ==
    /\ i' = ii
    /\ j' = 0
    /\ IF ii <= Len(sessionsData)
       THEN LET session == sessionsData[ii]
                channelInfo == NormalizeChannelInfo(session)
            IN /\ chan' = channelInfo
               /\ IF Throws(channelInfo) THEN End(lg, "error")
                  ELSE runQuery(lg, AgentSessionInsert(session, channelInfo, ii),
                                "AS_session")
       ELSE chan' = chan /\ End(lg, "ok")

\* insertAgentActivities (called by insertAgentSessions for session i, or on
\* its own with i = 1): the head of its loop, at activity jj; when the loop is
\* over the method returns and the caller, if any, moves to the next session.
NextAgentActivityStep(jj) ==
    LET direct == op = "insertAgentActivities"
        agentSessionId == IF direct THEN args.agentSessionId
                          ELSE Get(args.sessionsData[i], "agentSessionId")
        activitiesData == IF direct THEN args.activitiesData ELSE Nodes(chan)
    IN IF jj <= Len(activitiesData)
       THEN /\ i' = i
            /\ j' = jj
            /\ chan' = chan
            /\ IF Throws(activitiesData[jj]) THEN End(log, "error")
               ELSE runQuery(log, AgentActivityInsert(agentSessionId,
                                                      activitiesData[jj], i, jj),
                             "AA_activity")
       ELSE IF direct THEN End(log, "ok") /\ UNCHANGED <<i, j, chan>>
       ELSE NextSessionStep(args.sessionsData, i + 1, log)

\* insertAgentSessions: the write of the session row returned.
insertAgentSessions_SessionDone ==
    /\ pc = "AS_session"
    /\ Awaited
    /\ IF settled = "err" THEN End(log, "error") /\ UNCHANGED <<i, j, chan>>
       ELSE IF HasNodes(chan) THEN NextAgentActivityStep(1)
       ELSE NextSessionStep(args.sessionsData, i + 1, log)
    /\ UNCHANGED <<store, now, op, args, snap, runs>>
    /\ UNCHANGED mainVars

\* Variant: a failed write of an activity row is caught and skipped.
insertAgentActivities_ActivityDoneCaught ==
    /\ pc = "AA_activity"
    /\ Awaited
    /\ NextAgentActivityStep(j + 1)
    /\ UNCHANGED <<store, now, op, args, snap, runs>>
    /\ UNCHANGED mainVars

\* insertAgentActivities: the write of an activity row returned.
insertAgentActivities_ActivityDone ==
    /\ pc = "AA_activity"
    /\ Awaited
    /\ IF settled = "err" THEN End(log, "error") /\ UNCHANGED <<i, j, chan>>
       ELSE NextAgentActivityStep(j + 1)
    /\ UNCHANGED <<store, now, op, args, snap, runs>>
    /\ UNCHANGED mainVars

\* insertAggregations: the head of the loop, at metric ii.
NextAggregationStep(a, ii, lg) ==
    /\ i' = ii
    /\ j' = 0
    /\ IF ii <= Len(a.aggregations)
       THEN runQuery(lg, AggregationInsert(a, a.aggregations[ii], ii), "AG_row")
       ELSE End(lg, "ok")

\* insertAggregations: the write of a metric row returned.
insertAggregations_RowDone ==
    /\ pc = "AG_row"
    /\ Awaited
    /\ IF settled = "err" THEN End(log, "error") /\ UNCHANGED <<i, j>>
       ELSE NextAggregationStep(args, i + 1, log)
    /\ UNCHANGED <<store, now, op, args, chan, snap, runs>>
    /\ UNCHANGED mainVars

\* createTables: the head of the loop over the CREATE TABLE statements.
NextCreateStep(n, lg) ==
    /\ i' = n
    /\ j' = 0
    /\ IF n <= Len(createTablesQueries)
       THEN runQuery(lg, CreateTable(n), "CT_table")
       ELSE End(lg, "ok")

\* createTables: a CREATE TABLE statement returned.
createTables_TableDone ==
    /\ pc = "CT_table"
    /\ Awaited
    /\ IF settled = "err" THEN End(log, "error") /\ UNCHANGED <<i, j>>
       ELSE NextCreateStep(i + 1, log)
    /\ UNCHANGED <<store, now, op, args, chan, snap, runs>>
    /\ UNCHANGED mainVars

IngestStep ==
    \/ dbRunCallback
    \/ insertTasks_TaskDone
    \/ insertTasks_ActivityDone
    \/ insertAgentSessions_SessionDone
    \/ insertAgentActivities_ActivityDone
    \/ insertAggregations_RowDone

(***************************************************************************)
(* The ingest methods called on an initialized SQLiteManager.              *)
(***************************************************************************)
EmptyStore == [t \in Tables |-> <<>>]

\* A call starts: no call is running.
CanCall == mainpc = "api" /\ pc = "idle" /\ inflight = <<>>

StartTasks(tasksData, lg) ==
    /\ op' = "insertTasks"
    /\ args' = [tasksData |-> tasksData]
    /\ NextTaskStep(tasksData, 1, lg)
    /\ chan' = chan

StartSessions(sessionsData, lg) ==
    /\ op' = "insertAgentSessions"
    /\ args' = [sessionsData |-> sessionsData]
    /\ NextSessionStep(sessionsData, 1, lg)

\* insertAgentActivities called on its own.
StartAgentActivities(a, lg) ==
    /\ op' = "insertAgentActivities"
    /\ args' = a
    /\ i' = 1
    /\ chan' = chan
    /\ IF Len(a.activitiesData) >= 1
       THEN /\ j' = 1
            /\ IF Throws(a.activitiesData[1]) THEN End(lg, "error")
               ELSE runQuery(lg, AgentActivityInsert(a.agentSessionId,
                                                     a.activitiesData[1], 1, 1),
                             "AA_activity")
       ELSE j' = 0 /\ End(lg, "ok")

StartAggregations(a, lg) ==
    /\ op' = "insertAggregations"
    /\ args' = a
    /\ NextAggregationStep(a, 1, lg)
    /\ chan' = chan

\* One more call of a sequence of calls.
insertTasks ==
    /\ CanCall
    /\ runs < MaxCalls
    /\ \E tasksData \in TaskSamples : StartTasks(tasksData, <<>>)
    /\ snap' = store
    /\ runs' = runs + 1
    /\ UNCHANGED <<store, now>>
    /\ UNCHANGED mainVars

insertAgentSessions ==
    /\ CanCall
    /\ runs < MaxCalls
    /\ \E sessionsData \in SessionSamples : StartSessions(sessionsData, <<>>)
    /\ snap' = store
    /\ runs' = runs + 1
    /\ UNCHANGED <<store, now>>
    /\ UNCHANGED mainVars

insertAggregations ==
    /\ CanCall
    /\ runs < MaxCalls
    /\ \E a \in AggregationSamples : StartAggregations(a, <<>>)
    /\ snap' = store
    /\ runs' = runs + 1
    /\ UNCHANGED <<store, now>>
    /\ UNCHANGED mainVars

\* The rerun scenario: one call with any input ...
FirstRun ==
    /\ CanCall
    /\ runs = 0
    /\ \/ \E tasksData \in TaskInputs : StartTasks(tasksData, <<>>)
       \/ \E sessionsData \in SessionInputs : StartSessions(sessionsData, <<>>)
       \/ \E a \in AggregationInputs : StartAggregations(a, <<>>)
       \/ \E a \in ActivityInputs : StartAgentActivities(a, <<>>)
    /\ snap' = store
    /\ runs' = 1
    /\ UNCHANGED <<store, now>>
    /\ UNCHANGED mainVars

\* ... and, once it returned, the same call with the same input again.
Rerun ==
    /\ CanCall
    /\ runs \in 1..(MaxRuns - 1)
    /\ outcome = "ok"
    /\ \/ op = "insertTasks" /\ StartTasks(args.tasksData, <<>>)
       \/ op = "insertAgentSessions" /\ StartSessions(args.sessionsData, <<>>)
       \/ op = "insertAggregations" /\ StartAggregations(args, <<>>)
       \/ op = "insertAgentActivities" /\ StartAgentActivities(args, <<>>)
    /\ snap' = store
    /\ runs' = runs + 1
    /\ UNCHANGED <<store, now>>
    /\ UNCHANGED mainVars

NoMain ==
    /\ mainpc = "api"
    /\ result = Undefined
    /\ handle = [created |-> 1, opened |-> 1, closed |-> 0]
    /\ counts = <<>>
    /\ k = 0
    /\ exitCode = -1

\* The state after new SQLiteManager(path) and initialize() on a fresh file.
Init ==
    /\ store = EmptyStore
    /\ now = 0
    /\ inflight = <<>>
    /\ settled = "none"
    /\ pc = "idle"
    /\ op = "none"
    /\ args = [tasksData |-> <<>>]
    /\ i = 0
    /\ j = 0
    /\ chan = EmptyObj
    /\ outcome = "none"
    /\ snap = EmptyStore
    /\ log = <<>>
    /\ runs = 0
    /\ NoMain

Next ==
    \/ insertTasks
    \/ insertAgentSessions
    \/ insertAggregations
    \/ IngestStep

Spec == Init /\ [][Next]_vars

NextRerun ==
    \/ FirstRun
    \/ Rerun
    \/ IngestStep

SpecRerun == Init /\ [][NextRerun]_vars

(***************************************************************************)
(* main(): initialize, the three passes of WebexCCDataExtractor, close.    *)
(***************************************************************************)
\* What executeQuery can return for the taskDetails query (result.data || {}).
TaskResults ==
    { EmptyObj,
      JObj([taskDetails |-> JObj([tasks |-> JArr(<<>>)])]),
      JObj([taskDetails |-> JObj([tasks |-> JArr(<<TaskObj("T1", <<Activity1, Activity2>>)>>)])]),
      JObj([taskDetails |-> JObj([tasks |->
                JArr(<<JObj([id |-> JStr("T1")]), TaskObj("T2", <<Activity1b>>)>>)])]) }

\* ... for the agentSession query.
SessionResults ==
    { EmptyObj,
      JObj([agentSession |-> JObj([agentSessions |-> JArr(<<>>)])]),
      JObj([agentSession |-> JObj([agentSessions |->
                JArr(<<SessionObj("S1", JArr(<<Channel2, Channel1>>))>>)])]),
      JObj([agentSession |-> JObj([agentSessions |->
                JArr(<<SessionObj("S1", Undefined),
                       SessionObj("S2", JArr(<<JNull, Channel1>>))>>)])]) }

Owner1 == JObj([name |-> JStr("Agent One"), id |-> JStr("AG1")])

\* ... for the aggregation query: tasks with an aggregation (an object or a
\* list of metrics) and without.
AggregationResults ==
    { EmptyObj,
      JObj([taskDetails |-> JObj([tasks |-> JArr(<<>>)])]),
      JObj([taskDetails |-> JObj([tasks |->
                JArr(<<JObj([owner |-> Owner1, aggregation |-> Metric1])>>)])]),
      JObj([taskDetails |-> JObj([tasks |->
                JArr(<<JObj([owner |-> Owner1]),
                       JObj([aggregation |-> JArr(<<Metric1, Metric2>>)])>>)])]) }

\* Variant: the count of the records that led to a call of insertAggregations.
CountOfAggregated(res, root, list) ==
    LET xs == OptGet(OptGet(res, root), list)
    IN IF xs.k = "arr"
       THEN Cardinality({n \in 1..Len(xs.v) : Truthy(Get(xs.v[n], "aggregation"))})
       ELSE 0

\* result.<root>?.<list>?.length || 0
CountOf(res, root, list) ==
    LET xs == OptGet(OptGet(res, root), list)
    IN IF xs.k = "arr" THEN Len(xs.v) ELSE 0

\* result.<root> && result.<root>.<list>
HasList(res, root, list) ==
    Truthy(Get(res, root)) /\ Truthy(Get(Get(res, root), list))

MainEv(e, pass) == Ev(e, "-", pass, 0)

ingestVars == <<store, now, inflight, settled, pc, op, args, i, j, chan, outcome, snap>>

\* main up to the first await: the client and the SQLiteManager are built and
\* initialize() opens the database file; the open callback either reports an
\* error (initialize rejects) or starts createTables.
main_Initialize ==
    /\ mainpc = "start"
    /\ \/ /\ handle' = [created |-> 1, opened |-> 1, closed |-> 0]
          /\ mainpc' = "catch"
          /\ log' = Append(log, MainEv("openfailed", 0))
          /\ UNCHANGED ingestVars
       \/ /\ handle' = [created |-> 1, opened |-> 1, closed |-> 0]
          /\ mainpc' = "initialize"
          /\ op' = "createTables"
          /\ args' = [tasksData |-> <<>>]
          /\ snap' = store
          /\ NextCreateStep(1, Append(log, MainEv("open", 0)))
          /\ UNCHANGED <<store, now, chan>>
    /\ UNCHANGED <<runs, result, counts, k, exitCode>>

\* executeQuery is called: the request of pass n is sent.
SendQuery(n, lg) ==
    /\ mainpc' = "query"
    /\ k' = n
    /\ log' = Append(lg, MainEv("query", n))

\* initialize() returned: on success extractTasks sends its query.
main_Initialized ==
    /\ mainpc = "initialize"
    /\ pc = "idle"
    /\ IF outcome = "error"
       THEN mainpc' = "catch" /\ UNCHANGED <<log, k>>
       ELSE SendQuery(1, log)
    /\ UNCHANGED ingestVars
    /\ UNCHANGED <<runs, result, handle, counts, exitCode>>

\* A pass returned its count: the next pass sends its query, or main is done.
PassReturns(n, count, lg) ==
    /\ counts' = Append(counts, count)
    /\ IF n < 3 THEN SendQuery(n + 1, lg)
       ELSE mainpc' = "success" /\ k' = k /\ log' = lg

\* executeQuery throws: a GraphQL error, an HTTP error or a timeout.
executeQuery_Fails ==
    /\ mainpc = "query"
    /\ mainpc' = "catch"
    /\ log' = Append(log, MainEv("queryfailed", k))
    /\ UNCHANGED ingestVars
    /\ UNCHANGED <<runs, result, handle, counts, k, exitCode>>

\* extractTasks: the query returned; insert the tasks if there are any.
extractTasks_Result ==
    /\ mainpc = "query"
    /\ k = 1
    /\ \E res \in TaskResults :
          /\ result' = res
          /\ IF HasList(res, "taskDetails", "tasks")
                /\ CountOf(res, "taskDetails", "tasks") > 0
             THEN /\ StartTasks(Get(Get(res, "taskDetails"), "tasks").v,
                                Append(log, MainEv("result", 1)))
                  /\ snap' = store
                  /\ mainpc' = "insert"
                  /\ UNCHANGED <<counts, k, store, now>>
             ELSE /\ PassReturns(1, CountOf(res, "taskDetails", "tasks"),
                                 Append(log, MainEv("result", 1)))
                  /\ UNCHANGED ingestVars
    /\ UNCHANGED <<runs, handle, exitCode>>

\* extractAgentSessions: the query returned; insert the sessions if any.
extractAgentSessions_Result ==
    /\ mainpc = "query"
    /\ k = 2
    /\ \E res \in SessionResults :
          /\ result' = res
          /\ IF HasList(res, "agentSession", "agentSessions")
                /\ CountOf(res, "agentSession", "agentSessions") > 0
             THEN /\ StartSessions(Get(Get(res, "agentSession"), "agentSessions").v,
                                   Append(log, MainEv("result", 2)))
                  /\ snap' = store
                  /\ mainpc' = "insert"
                  /\ UNCHANGED <<counts, k, store, now>>
             ELSE /\ PassReturns(2, CountOf(res, "agentSession", "agentSessions"),
                                 Append(log, MainEv("result", 2)))
                  /\ UNCHANGED ingestVars
    /\ UNCHANGED <<runs, handle, exitCode>>

\* Variant: an insert that threw counts as done, the run goes on.
extract_InsertedCaught ==
    /\ mainpc = "insert"
    /\ pc = "idle"
    /\ IF k = 1
       THEN PassReturns(1, CountOf(result, "taskDetails", "tasks"), log)
       ELSE PassReturns(2, CountOf(result, "agentSession", "agentSessions"), log)
    /\ UNCHANGED ingestVars
    /\ UNCHANGED <<runs, result, handle, exitCode>>

\* extractTasks / extractAgentSessions: the insert returned or threw.
extract_Inserted ==
    /\ mainpc = "insert"
    /\ pc = "idle"
    /\ IF outcome = "error"
       THEN mainpc' = "catch" /\ UNCHANGED <<log, k, counts>>
       ELSE IF k = 1
            THEN PassReturns(1, CountOf(result, "taskDetails", "tasks"), log)
            ELSE PassReturns(2, CountOf(result, "agentSession", "agentSessions"), log)
    /\ UNCHANGED ingestVars
    /\ UNCHANGED <<runs, result, handle, exitCode>>

\* The arguments of the insertAggregations call for one task of the result.
AggregationCall(task) ==
    [queryName |-> JStr("task_statistics_by_agent"),
     aggregations |-> <<Get(task, "aggregation")>>,
     timeStart |-> JNum(1000), timeEnd |-> JNum(2000),
     groupByData |-> JObj([field |-> JStr("owner_id"),
                           value |-> OptGet(Get(task, "owner"), "id")])]

RECURSIVE FirstWithAggregation(_, _)
\* The first index from n on of a task with a truthy aggregation (past the
\* end when there is none): the loop skips the others.
FirstWithAggregation(tasks, n) ==
    IF n > Len(tasks) \/ Truthy(Get(tasks[n], "aggregation")) THEN n
    ELSE FirstWithAggregation(tasks, n + 1)

\* extractTaskAggregations: the loop over the tasks from index n on.
NextAggregationTask(res, n, lg) ==
    LET tasks == Get(Get(res, "taskDetails"), "tasks").v
        m == FirstWithAggregation(tasks, n)
    IN IF m <= Len(tasks)
       THEN /\ StartAggregations(AggregationCall(tasks[m]), lg)
            /\ snap' = store
            /\ mainpc' = "aggregate"
            /\ k' = m
            /\ UNCHANGED <<counts, store, now>>
       ELSE /\ PassReturns(3, CountOf(res, "taskDetails", "tasks"), lg)
            /\ UNCHANGED ingestVars

\* extractTaskAggregations: the query returned.
extractTaskAggregations_Result ==
    /\ mainpc = "query"
    /\ k = 3
    /\ \E res \in AggregationResults :
          /\ result' = res
          /\ IF HasList(res, "taskDetails", "tasks")
             THEN NextAggregationTask(res, 1, Append(log, MainEv("result", 3)))
             ELSE /\ PassReturns(3, CountOf(res, "taskDetails", "tasks"),
                                 Append(log, MainEv("result", 3)))
                  /\ UNCHANGED ingestVars
    /\ UNCHANGED <<runs, handle, exitCode>>

\* extractTaskAggregations: insertAggregations returned or threw.
extractTaskAggregations_Inserted ==
    /\ mainpc = "aggregate"
    /\ pc = "idle"
    /\ IF outcome = "error"
       THEN mainpc' = "catch" /\ UNCHANGED <<log, k, counts>> /\ UNCHANGED ingestVars
       ELSE NextAggregationTask(result, k + 1, log)
    /\ UNCHANGED <<runs, result, handle, exitCode>>

\* Variant: close() at the end of the try block, so only on the success path.
main_CloseInTry ==
    /\ mainpc \in {"success", "catch"}
    /\ handle' = [handle EXCEPT !.closed = IF mainpc = "success" THEN @ + 1 ELSE @]
    /\ mainpc' = IF mainpc = "success" THEN "resolved" ELSE "rejected"
    /\ log' = IF mainpc = "success" THEN Append(log, MainEv("close", 0)) ELSE log
    /\ UNCHANGED ingestVars
    /\ UNCHANGED <<runs, result, counts, k, exitCode>>

\* The finally block: close() on the success path and after a catch.
main_Finally ==
    /\ mainpc \in {"success", "catch"}
    /\ handle' = [handle EXCEPT !.closed = @ + 1]
    /\ mainpc' = IF mainpc = "success" THEN "resolved" ELSE "rejected"
    /\ log' = Append(log, MainEv("close", 0))
    /\ UNCHANGED ingestVars
    /\ UNCHANGED <<runs, result, counts, k, exitCode>>

\* main() settled: its rejection ends in process.exit(1).
main_Exit ==
    /\ mainpc \in {"resolved", "rejected"}
    /\ exitCode' = IF mainpc = "resolved" THEN 0 ELSE 1
    /\ mainpc' = "exited"
    /\ log' = Append(log, MainEv("exit", 0))
    /\ UNCHANGED ingestVars
    /\ UNCHANGED <<runs, result, handle, counts, k>>

NoTables == [t \in {} |-> <<>>]

\* The process starts: the database file is new, or holds the (empty) tables.
InitMain ==
    /\ store \in {NoTables, EmptyStore}
    /\ now = 0
    /\ inflight = <<>>
    /\ settled = "none"
    /\ pc = "idle"
    /\ op = "none"
    /\ args = [tasksData |-> <<>>]
    /\ i = 0
    /\ j = 0
    /\ chan = EmptyObj
    /\ outcome = "none"
    /\ snap = store
    /\ log = <<>>
    /\ runs = 0
    /\ mainpc = "start"
    /\ result = Undefined
    /\ handle = [created |-> 0, opened |-> 0, closed |-> 0]
    /\ counts = <<>>
    /\ k = 0
    /\ exitCode = -1

NextMain ==
    \/ main_Initialize
    \/ createTables_TableDone
    \/ main_Initialized
    \/ executeQuery_Fails
    \/ extractTasks_Result
    \/ extractAgentSessions_Result
    \/ extract_Inserted
    \/ extractTaskAggregations_Result
    \/ extractTaskAggregations_Inserted
    \/ main_Finally
    \/ main_Exit
    \/ IngestStep

SpecMain == InitMain /\ [][NextMain]_vars

(***************************************************************************)
(* Properties.                                                             *)
(***************************************************************************)
\* The statements insertTasks issues for one task when every write succeeds.
WritesOfTask(task, ii) ==
    <<TaskInsert(task, ii)>>
    \o (IF HasNodes(task)
        THEN [n \in 1..Len(Nodes(task)) |-> TaskActivityInsert(task, Nodes(task)[n], ii, n)]
        ELSE <<>>)

RECURSIVE WritesOfTasks(_, _)
WritesOfTasks(tasksData, ii) ==
    IF ii > Len(tasksData) THEN <<>>
    ELSE WritesOfTask(tasksData[ii], ii) \o WritesOfTasks(tasksData, ii + 1)

\* The position of the last write to table t with primary key id.
LastWrite(ws, t, id) ==
    CHOOSE n \in 1..Len(ws) :
        /\ ws[n].table = t /\ BindParam(ws[n].params[1]) = id
        /\ \A m \in (n + 1)..Len(ws) :
              ~(ws[m].table = t /\ BindParam(ws[m].params[1]) = id)

KeysOf(ws, t) == {BindParam(ws[n].params[1]) : n \in {m \in 1..Len(ws) : ws[m].table = t}}

RowKeys(rows, t) == {rows[n][PrimaryKey(t)] : n \in 1..Len(rows)}

\* A run of insertTasks after the first has returned.
RerunOfTasksDone == op = "insertTasks" /\ runs >= 2 /\ pc = "idle" /\ outcome = "ok"

\* C1: after insertTasks ran again with the same input, tasks and
\* task_activities hold one row per unique id, the same keys and as many rows
\* as after the run before, and each row is the one the last write for its id
\* wrote (the last occurrence of the id in the input, in the last run).
C1_Idempotent ==
    RerunOfTasksDone =>
        LET ws == WritesOfTasks(args.tasksData, 1)
        IN \A t \in {"tasks", "task_activities"} :
              /\ RowKeys(store[t], t) = KeysOf(ws, t)
              /\ Len(store[t]) = Cardinality(KeysOf(ws, t))
              /\ RowKeys(store[t], t) = RowKeys(snap[t], t)
              /\ Len(store[t]) = Len(snap[t])
              /\ \A n \in 1..Len(store[t]) :
                    LET p == LastWrite(ws, t, store[t][n][PrimaryKey(t)])
                    IN store[t][n] = NewRow(<<>>, ws[p], now - Len(ws) + p)

\* C1 witness: a rerun returned whose input names one task twice and one
\* activity twice.
C1_Witness ==
    /\ RerunOfTasksDone
    /\ Len(args.tasksData) = 2
    /\ Len(store["tasks"]) = 1
    /\ Len(store["task_activities"]) = 1

\* C2: within a call of insertTasks, whenever the write of an activity row is
\* issued, the write of the row of its task has completed before.
C2_TaskRowFirst ==
    op = "insertTasks" =>
        \A n \in 1..Len(log) :
            (log[n].ev = "issue" /\ log[n].table = "task_activities") =>
                \E m \in 1..(n - 1) : log[m] = Ev("ok", "tasks", log[n].i, 0)

\* C2 witness: the second activity of a task is being written.
C2_Witness ==
    /\ op = "insertTasks"
    /\ \E n \in 1..Len(log) :
          log[n].ev = "issue" /\ log[n].table = "task_activities" /\ log[n].j = 2

StmtAt(t, ii, jj) ==
    CASE t = "tasks" -> TaskInsert(args.tasksData[ii], ii)
      [] t = "task_activities" ->
            TaskActivityInsert(args.tasksData[ii], Nodes(args.tasksData[ii])[jj], ii, jj)
      [] t = "agent_sessions" ->
            AgentSessionInsert(args.sessionsData[ii],
                               NormalizeChannelInfo(args.sessionsData[ii]), ii)
      [] t = "agent_activities" ->
            AgentActivityInsert(Get(args.sessionsData[ii], "agentSessionId"),
                                Nodes(NormalizeChannelInfo(args.sessionsData[ii]))[jj],
                                ii, jj)
      [] t = "task_aggregations" -> AggregationInsert(args, args.aggregations[ii], ii)

\* The number of statements settled among the first n events.
SettledIn(lg, n) == Cardinality({m \in 1..n : lg[m].ev \in {"ok", "err"}})

RECURSIVE Replay(_, _, _)
\* The store that results from st when exactly the writes the log reports as
\* successful are applied, each at its time (t0: the time the log starts at).
Replay(st, lg, n) ==
    IF n = 0 THEN st
    ELSE LET before == Replay(st, lg, n - 1)
         IN IF lg[n].ev = "ok"
            THEN Execute(before, StmtAt(lg[n].table, lg[n].i, lg[n].j),
                         now - SettledIn(lg, Len(lg)) + SettledIn(lg, n))
            ELSE before

InIngestCall == op \in {"insertTasks", "insertAgentSessions"}

\* C4 as claimed: after an insertTasks or insertAgentSessions call that a
\* failed row write aborted, the store holds none of the rows the call wrote.
C4_AllOrNothing ==
    (InIngestCall /\ pc = "idle" /\ outcome = "error") => store = snap

\* C4 amended: the rows are written one statement at a time and none is undone:
\* at every point of a call, and after it was aborted, the store is the store
\* the call started from with every write that succeeded so far applied.
C4_WritesAreKept ==
    InIngestCall => store = Replay(snap, log, Len(log))

\* C4 witness: a call aborted by a failed write left rows it wrote before.
C4_Witness ==
    /\ InIngestCall /\ pc = "idle" /\ outcome = "error"
    /\ \E n \in 1..Len(log) : log[n].ev = "err"
    /\ store # snap

\* C5: once a row write of a call has failed, the call issues no other write:
\* the only thing that follows the failure is the call throwing.
C5_AbortOnFailure ==
    \A n \in 1..Len(log) :
        log[n].ev = "err" =>
            \/ n = Len(log) /\ pc # "idle"
            \/ /\ n = Len(log) - 1
               /\ log[Len(log)] = Ev("throw", "-", 0, 0)
               /\ pc = "idle" /\ outcome = "error"

\* C5 witness: insertAgentSessions threw because a write of the nested
\* insertAgentActivities failed, with a session left unwritten.
C5_Witness ==
    /\ op = "insertAgentSessions" /\ pc = "idle" /\ outcome = "error"
    /\ Len(log) >= 2
    /\ log[Len(log) - 1].ev = "err" /\ log[Len(log) - 1].table = "agent_activities"
    /\ i < Len(args.sessionsData)

\* An event that reports a failure: the database did not open, a query
\* failed, a statement failed, an ingest method threw.
IsFailure(e) == e.ev \in {"openfailed", "queryfailed", "err", "throw"}

Failed == \E n \in 1..Len(log) : IsFailure(log[n])

\* C6: in a run of main, after a failure of schema initialization, of a query
\* or of an ingestor, no query is sent and no write is issued; the process
\* then exits with a non-zero code, and it exits with 0 only when all three
\* passes returned their counts and nothing failed.
C6_FailureAbortsRun ==
    /\ \A n \in 1..Len(log) :
          IsFailure(log[n]) =>
              \A m \in (n + 1)..Len(log) :
                  log[m].ev \notin {"open", "query", "result", "issue", "ok"}
    /\ Failed => mainpc \notin {"success", "resolved"}
    /\ (mainpc = "exited" /\ Failed) => exitCode = 1
    /\ exitCode = 0 =>
          /\ ~Failed
          /\ Len(counts) = 3
          /\ \A pass \in 1..3 : \E n \in 1..Len(log) : log[n] = MainEv("result", pass)

\* C6 witness: the run exited with code 1 after a write of the second pass
\* failed, the first pass having written its rows.
C6_Witness ==
    /\ mainpc = "exited" /\ exitCode = 1
    /\ Len(counts) = 1
    /\ Len(store["tasks"]) >= 1
    /\ \E n \in 1..Len(log) :
          log[n].ev = "err" /\ log[n].table \in {"agent_sessions", "agent_activities"}

\* C7: in a run of main the database is opened at most once and close() is
\* called at most once; when the process exits it was opened once and closed
\* once, whether the run succeeded or failed; when close() is called no
\* statement is in flight, nothing is written or queried after it, and the
\* process exits only after it.
C7_ClosedOnce ==
    /\ handle.created <= 1 /\ handle.opened <= 1 /\ handle.closed <= 1
    /\ handle.opened <= handle.created /\ handle.closed <= handle.opened
    /\ handle.closed = 1 => inflight = <<>> /\ pc = "idle"
    /\ mainpc = "exited" => handle.opened = 1 /\ handle.closed = 1
    /\ \A n \in 1..Len(log) :
          /\ log[n].ev = "close" =>
                \A m \in (n + 1)..Len(log) : log[m].ev = "exit"
          /\ log[n].ev = "exit" =>
                /\ n = Len(log)
                /\ \E m \in 1..(n - 1) : log[m].ev = "close"

\* C7 witness: the run failed in an ingestor after it had written rows, and
\* exited with the database closed.
C7_Witness ==
    /\ mainpc = "exited" /\ exitCode = 1 /\ handle.closed = 1
    /\ pc = "idle" /\ outcome = "error"
    /\ \E n \in 1..Len(log) : log[n].ev = "ok" /\ log[n].table = "agent_sessions"

\* C8: every row of every table has a created_at that is not NULL and is the
\* timestamp the store set by default at insert time (no write has put a value
\* of its own, such as NULL, in its place).
C8_CreatedAtDefault ==
    \A t \in DOMAIN store :
        \A n \in 1..Len(store[t]) :
            /\ store[t][n]["created_at"] # SNull
            /\ store[t][n]["created_at"].k = "TIMESTAMP"

\* C9 as claimed: every row of each of the five tables has a raw_data column
\* that holds a JSON text.
C9_AllFiveSnapshots ==
    \A t \in DOMAIN store :
        \A n \in 1..Len(store[t]) :
            /\ "raw_data" \in DOMAIN store[t][n]
            /\ store[t][n]["raw_data"].k = "TEXT"

\* The effective activities of session ii of the running call.
ChannelNodes(ii) ==
    LET channelInfo == NormalizeChannelInfo(args.sessionsData[ii])
    IN IF ~Throws(channelInfo) /\ HasNodes(channelInfo) THEN Nodes(channelInfo) ELSE <<>>

TaskNodes(ii) ==
    IF HasNodes(args.tasksData[ii]) THEN Nodes(args.tasksData[ii]) ELSE <<>>

\* C9 amended: every row of tasks, task_activities, agent_sessions and
\* agent_activities stores in raw_data the JSON text of the very object it was
\* derived from (the task, the activity, the session, the agent activity);
\* task_aggregations has no raw_data column and its rows store no snapshot.
C9_FourSnapshots ==
    /\ op = "insertTasks" =>
          /\ \A n \in 1..Len(store["tasks"]) :
                \E ii \in 1..Len(args.tasksData) :
                    LET task == args.tasksData[ii]
                    IN /\ store["tasks"][n]["id"] = BindParam(Get(task, "id"))
                       /\ store["tasks"][n]["raw_data"] = SText(JsonText(task))
          /\ \A n \in 1..Len(store["task_activities"]) :
                \E ii \in 1..Len(args.tasksData) :
                    \E jj \in 1..Len(TaskNodes(ii)) :
                        LET activity == TaskNodes(ii)[jj]
                            row == store["task_activities"][n]
                        IN /\ row["id"] = BindParam(Get(activity, "id"))
                           /\ row["task_id"] = BindParam(Get(args.tasksData[ii], "id"))
                           /\ row["agent_id"] = BindParam(Get(activity, "agentId"))
                           /\ row["raw_data"] = SText(JsonText(activity))
    /\ op = "insertAgentSessions" =>
          /\ \A n \in 1..Len(store["agent_sessions"]) :
                \E ii \in 1..Len(args.sessionsData) :
                    LET session == args.sessionsData[ii]
                        row == store["agent_sessions"][n]
                    IN /\ row["agent_session_id"] = BindParam(Get(session, "agentSessionId"))
                       /\ row["raw_data"] = SText(JsonText(session))
          /\ \A n \in 1..Len(store["agent_activities"]) :
                \E ii \in 1..Len(args.sessionsData) :
                    \E jj \in 1..Len(ChannelNodes(ii)) :
                        LET activity == ChannelNodes(ii)[jj]
                            row == store["agent_activities"][n]
                        IN /\ row["agent_session_id"]
                                = BindParam(Get(args.sessionsData[ii], "agentSessionId"))
                           /\ row["start_time"] = BindParam(Get(activity, "startTime"))
                           /\ row["state"] = BindParam(Get(activity, "state"))
                           /\ row["raw_data"] = SText(JsonText(activity))
    /\ \A n \in 1..Len(store["task_aggregations"]) :
          "raw_data" \notin DOMAIN store["task_aggregations"][n]

\* C9 witness: a call wrote two tasks and two activities of one of them.
C9_Witness ==
    /\ op = "insertTasks" /\ pc = "idle" /\ outcome = "ok"
    /\ Len(store["tasks"]) = 2
    /\ Len(store["task_activities"]) = 2

\* Whether session ii carries a list of two or more channels that starts with
\* a channel (null has no fields to read).
HasChannelList(ii) ==
    LET channelInfo == Get(args.sessionsData[ii], "channelInfo")
    IN /\ channelInfo.k = "arr"
       /\ Len(channelInfo.v) >= 2
       /\ ~Throws(channelInfo.v[1])

FirstChannel(ii) == Get(args.sessionsData[ii], "channelInfo").v[1]

FirstChannelNodes(ii) ==
    IF HasNodes(FirstChannel(ii)) THEN Nodes(FirstChannel(ii)) ELSE <<>>

\* The agent_activities writes that succeeded, in the order they ran: in the
\* first call on an empty store the n-th of them created row n.
ActivityWrites ==
    SelectSeq(log, LAMBDA e : e.ev = "ok" /\ e.table = "agent_activities")

FirstSessionsCallDone ==
    op = "insertAgentSessions" /\ runs = 1 /\ pc = "idle" /\ outcome = "ok"

\* C10: when insertAgentSessions has returned, for each session whose
\* channelInfo is a list of two or more elements: the agent_sessions row of its
\* id (if no later session of the input has the same id) has the four channel
\* columns of the first element; the agent_activities rows written for the
\* session are, in order, the activities.nodes of the first element (none if
\* it has none), each under the session's id.
C10_FirstChannelOnly ==
    FirstSessionsCallDone =>
        /\ Len(store["agent_activities"]) = Len(ActivityWrites)
        /\ \A ii \in 1..Len(args.sessionsData) :
              HasChannelList(ii) =>
                  LET session == args.sessionsData[ii]
                      sid == BindParam(Get(session, "agentSessionId"))
                      first == FirstChannel(ii)
                      nodes == FirstChannelNodes(ii)
                      mine == {m \in 1..Len(ActivityWrites) : ActivityWrites[m].i = ii}
                  IN /\ (\A x \in (ii + 1)..Len(args.sessionsData) :
                            Get(args.sessionsData[x], "agentSessionId")
                                # Get(session, "agentSessionId"))
                        => \E n \in 1..Len(store["agent_sessions"]) :
                              LET row == store["agent_sessions"][n]
                              IN /\ row["agent_session_id"] = sid
                                 /\ row["channel_id"] = BindParam(Get(first, "channelId"))
                                 /\ row["channel_type"] = BindParam(Get(first, "channelType"))
                                 /\ row["agent_phone_number"]
                                       = BindParam(Get(first, "agentPhoneNumber"))
                                 /\ row["sub_channel_type"]
                                       = BindParam(Get(first, "subChannelType"))
                                 /\ row["raw_data"] = SText(JsonText(session))
                     /\ {ActivityWrites[m].j : m \in mine} = 1..Len(nodes)
                     /\ Cardinality(mine) = Len(nodes)
                     /\ \A m \in mine :
                           LET row == store["agent_activities"][m]
                               activity == nodes[ActivityWrites[m].j]
                           IN /\ row["agent_session_id"] = sid
                              /\ row["start_time"] = BindParam(Get(activity, "startTime"))
                              /\ row["end_time"] = BindParam(Get(activity, "endTime"))
                              /\ row["state"] = BindParam(Get(activity, "state"))
                              /\ row["task_id"] = BindParam(Get(activity, "taskId"))
                              /\ row["raw_data"] = SText(JsonText(activity))

\* C10 witness: the call wrote two sessions with a list of two channels each,
\* one whose first channel has an activity and one whose first channel has none.
C10_Witness ==
    /\ FirstSessionsCallDone
    /\ Len(args.sessionsData) = 2
    /\ \A ii \in 1..2 : HasChannelList(ii)
    /\ \E ii \in 1..2 : FirstChannelNodes(ii) # <<>>
    /\ \E ii \in 1..2 : FirstChannelNodes(ii) = <<>>
    /\ Len(store["agent_sessions"]) = 2

\* Whether no session after ii in the input has the id of session ii (the
\* agent_sessions row of that id is then the one session ii wrote).
LastOfItsId(ii) ==
    \A x \in (ii + 1)..Len(args.sessionsData) :
        Get(args.sessionsData[x], "agentSessionId")
            # Get(args.sessionsData[ii], "agentSessionId")

ChannelColumns == {"channel_id", "channel_type", "agent_phone_number", "sub_channel_type"}

\* The events of the running call that concern agent_activities of session ii.
ActivityEventsOf(ii) ==
    {n \in 1..Len(log) : log[n].table = "agent_activities" /\ log[n].i = ii}

\* C11: when insertAgentSessions has returned, for each session without a
\* channelInfo field: its agent_sessions row has the session's own fields in
\* the session columns and NULL in the four channel columns, and no
\* agent_activities write was issued for the session.
C11_NoChannelInfo ==
    FirstSessionsCallDone =>
        \A ii \in 1..Len(args.sessionsData) :
            Get(args.sessionsData[ii], "channelInfo") = Undefined =>
                LET session == args.sessionsData[ii]
                IN /\ ActivityEventsOf(ii) = {}
                   /\ \E n \in 1..Len(log) : log[n] = Ev("ok", "agent_sessions", ii, 0)
                   /\ LastOfItsId(ii) =>
                         \E n \in 1..Len(store["agent_sessions"]) :
                             LET row == store["agent_sessions"][n]
                             IN /\ row["agent_session_id"]
                                      = BindParam(Get(session, "agentSessionId"))
                                /\ row["agent_id"] = BindParam(Get(session, "agentId"))
                                /\ row["agent_name"] = BindParam(Get(session, "agentName"))
                                /\ row["team_id"] = BindParam(Get(session, "teamId"))
                                /\ row["raw_data"] = SText(JsonText(session))
                                /\ \A c \in ChannelColumns : row[c] = SNull

\* C11 witness: the call wrote a session with a channel and two activities,
\* then a session of the same id without channelInfo.
C11_Witness ==
    /\ FirstSessionsCallDone
    /\ Len(args.sessionsData) = 2
    /\ Get(args.sessionsData[2], "channelInfo") = Undefined
    /\ Len(store["agent_sessions"]) = 1
    /\ Len(store["agent_activities"]) = 2

AppendOnlyTables == {"agent_activities", "task_aggregations"}

IsPrefix(a, b) == Len(a) <= Len(b) /\ \A n \in 1..Len(a) : b[n] = a[n]

RECURSIVE SumOfNodes(_)
\* The number of effective activities of sessions 1..ii of the running call.
SumOfNodes(ii) == IF ii = 0 THEN 0 ELSE Len(ChannelNodes(ii)) + SumOfNodes(ii - 1)

\* The rows one run of the running call appends to table t when it returns:
\* one per activity, per metric, or per effective activity of the sessions.
ElementsOf(t) ==
    CASE op = "insertAgentActivities" /\ t = "agent_activities" -> Len(args.activitiesData)
      [] op = "insertAggregations" /\ t = "task_aggregations" -> Len(args.aggregations)
      [] op = "insertAgentSessions" /\ t = "agent_activities" ->
            SumOfNodes(Len(args.sessionsData))
      [] OTHER -> 0

CallReturned == pc = "idle" /\ outcome = "ok" /\ runs >= 1

\* C12: agent_activities and task_aggregations are append-only. In every state
\* the rows the table had when the running call started are still its first
\* rows, unchanged, and the ids of its rows are pairwise different; when the
\* r-th run of the same call on the same input returns, the table has r times
\* as many rows as the input has elements (twice after the second), the rows
\* of the last run being those of the input elements in order; re-running
\* insertAgentSessions leaves agent_sessions at one row per id.
C12_AppendOnly ==
    /\ \A t \in AppendOnlyTables :
          /\ IsPrefix(snap[t], store[t])
          /\ \A n, m \in 1..Len(store[t]) :
                store[t][n]["id"] = store[t][m]["id"] => n = m
    /\ CallReturned =>
          /\ \A t \in AppendOnlyTables :
                /\ Len(store[t]) = runs * ElementsOf(t)
                /\ Len(store[t]) - Len(snap[t]) = ElementsOf(t)
          /\ op = "insertAgentActivities" =>
                \A n \in 1..Len(args.activitiesData) :
                    LET row == store["agent_activities"][Len(snap["agent_activities"]) + n]
                    IN /\ row["raw_data"] = SText(JsonText(args.activitiesData[n]))
                       /\ row["agent_session_id"] = BindParam(args.agentSessionId)
          /\ op = "insertAggregations" =>
                \A n \in 1..Len(args.aggregations) :
                    LET row == store["task_aggregations"][Len(snap["task_aggregations"]) + n]
                    IN /\ row["aggregation_name"]
                             = BindParam(Get(args.aggregations[n], "name"))
                       /\ row["aggregation_value"]
                             = BindParam(Get(args.aggregations[n], "value"))
          /\ op = "insertAgentSessions" =>
                Len(store["agent_sessions"])
                    = Cardinality({Get(args.sessionsData[ii], "agentSessionId") :
                                      ii \in 1..Len(args.sessionsData)})

\* C12 witness: insertAgentActivities returned from its second run on two
\* activities, with four rows stored.
C12_Witness ==
    /\ op = "insertAgentActivities" /\ CallReturned /\ runs = 2
    /\ Len(args.activitiesData) = 2
    /\ Len(store["agent_activities"]) = 4

(***************************************************************************)
(* insertTasks on one task with one activity, the activity carrying any    *)
(* few of its fields, or all but a few.                                    *)
(***************************************************************************)
MaxPresent == 1    \* fields of an activity that has few
MaxMissing == 1    \* fields missing from an activity that has most

IntegerFields == {"createdTime", "endedTime", "duration", "lastActivityTime"}

\* A value for field f, different from field to field: a boolean for
\* isActive, a number for the times, the field's name for the text fields; or,
\* with falsy, the values false, 0 and "".
FieldValue(f, falsy) ==
    CASE f = "isActive" -> JBool(~falsy)
      [] f \in IntegerFields ->
            JNum(IF falsy THEN 0 ELSE 1000 + IndexOf(TaskActivityFields, f))
      [] OTHER -> JStr(IF falsy THEN "" ELSE f)

RECURSIVE SubsetsUpTo(_, _)
\* The subsets of u with at most n elements.
SubsetsUpTo(u, n) ==
    IF n = 0 THEN {{}}
    ELSE LET smaller == SubsetsUpTo(u, n - 1)
         IN smaller \cup {x \cup {f} : x \in smaller, f \in u}

FieldSets ==
    SubsetsUpTo(Range(TaskActivityFields), MaxPresent)
    \cup {Range(TaskActivityFields) \ x :
             x \in SubsetsUpTo(Range(TaskActivityFields), MaxMissing)}

FieldActivity(fs, falsy) ==
    JObj([f \in fs \cup {"id"} |-> IF f = "id" THEN JStr("A1") ELSE FieldValue(f, falsy)])

insertTasks_OneActivity ==
    /\ CanCall
    /\ runs = 0
    /\ \E fs \in FieldSets, falsy \in BOOLEAN :
          StartTasks(<<TaskObj("T1", <<FieldActivity(fs, falsy)>>)>>, <<>>)
    /\ snap' = store
    /\ runs' = 1
    /\ UNCHANGED <<store, now>>
    /\ UNCHANGED mainVars

NextFields ==
    \/ insertTasks_OneActivity
    \/ dbRunCallback
    \/ insertTasks_TaskDone
    \/ insertTasks_ActivityDone

SpecFields == Init /\ [][NextFields]_vars

\* The column named after each activity field (the field's name in snake case).
ColumnOfField ==
    <<<<"isActive", "is_active">>,
      <<"createdTime", "created_time">>,
      <<"endedTime", "ended_time">>,
      <<"agentId", "agent_id">>,
      <<"agentName", "agent_name">>,
      <<"agentPhoneNumber", "agent_phone_number">>,
      <<"agentSessionId", "agent_session_id">>,
      <<"agentChannelId", "agent_channel_id">>,
      <<"entrypointId", "entrypoint_id">>,
      <<"entrypointName", "entrypoint_name">>,
      <<"queueId", "queue_id">>,
      <<"queueName", "queue_name">>,
      <<"siteId", "site_id">>,
      <<"siteName", "site_name">>,
      <<"teamId", "team_id">>,
      <<"teamName", "team_name">>,
      <<"transferType", "transfer_type">>,
      <<"activityType", "activity_type">>,
      <<"activityName", "activity_name">>,
      <<"eventName", "event_name">>,
      <<"previousState", "previous_state">>,
      <<"nextState", "next_state">>,
      <<"consultEpId", "consult_ep_id">>,
      <<"consultEpName", "consult_ep_name">>,
      <<"childContactId", "child_contact_id">>,
      <<"childContactType", "child_contact_type">>,
      <<"duration", "duration">>,
      <<"destinationAgentPhoneNumber", "destination_agent_phone_number">>,
      <<"destinationAgentId", "destination_agent_id">>,
      <<"destinationAgentName", "destination_agent_name">>,
      <<"destinationAgentSessionId", "destination_agent_session_id">>,
      <<"destinationAgentChannelId", "destination_agent_channel_id">>,
      <<"destinationAgentTeamId", "destination_agent_team_id">>,
      <<"destinationAgentTeamName", "destination_agent_team_name">>,
      <<"destinationQueueName", "destination_queue_name">>,
      <<"destinationQueueId", "destination_queue_id">>,
      <<"terminationReason", "termination_reason">>,
      <<"ivrScriptId", "ivr_script_id">>,
      <<"ivrScriptName", "ivr_script_name">>,
      <<"ivrScriptTagId", "ivr_script_tag_id">>,
      <<"ivrScriptTagName", "ivr_script_tag_name">>,
      <<"lastActivityTime", "last_activity_time">>,
      <<"skillsAssignedIn", "skills_assigned_in">>>>

ActivityWritten == \E n \in 1..Len(log) : log[n] = Ev("ok", "task_activities", 1, 1)

\* C13: once the write of the activity of the task has succeeded, its
\* task_activities row has id = the activity's id, task_id = the task's id,
\* NULL in the column of every field the activity lacks, and in the column of
\* every field it has the value of that very field (text as text, a number as
\* that number, a boolean as 1 or 0), never NULL.
C13_FieldsInPlace ==
    (op = "insertTasks" /\ ActivityWritten) =>
        LET task == args.tasksData[1]
            activity == Nodes(task)[1]
            row == store["task_activities"][1]
        IN /\ Len(store["task_activities"]) = 1
           /\ row["id"] = SText(Get(activity, "id").v)
           /\ row["task_id"] = SText(Get(task, "id").v)
           /\ \A n \in 1..Len(ColumnOfField) :
                 LET f == ColumnOfField[n][1]
                     c == ColumnOfField[n][2]
                 IN IF f \notin DOMAIN activity.v THEN row[c] = SNull
                    ELSE LET x == activity.v[f]
                         IN /\ row[c] # SNull
                            /\ row[c] = CASE x.k = "str" -> SText(x.v)
                                          [] x.k = "num" -> SInt(x.v)
                                          [] x.k = "bool" -> SInt(IF x.v THEN 1 ELSE 0)

\* C13 witness: the row of an activity that has every field but duration,
\* with the values false, 0 and "" in the others.
C13_Witness ==
    /\ op = "insertTasks" /\ ActivityWritten
    /\ LET activity == Nodes(args.tasksData[1])[1]
       IN /\ DOMAIN activity.v = (Range(TaskActivityFields) \ {"duration"}) \cup {"id"}
          /\ activity.v["isActive"] = JBool(FALSE)

\* C14: when insertAggregations has returned, it has appended one row per
\* metric, and each of these rows has in group_by_field and group_by_value the
\* field and the value of the grouping pair exactly as given (an empty string
\* or 0 included) when a pair was supplied, and NULL in both when none was.
C14_GroupByAsGiven ==
    (op = "insertAggregations" /\ CallReturned) =>
        /\ Len(store["task_aggregations"]) - Len(snap["task_aggregations"])
              = Len(args.aggregations)
        /\ \A n \in (Len(snap["task_aggregations"]) + 1)..Len(store["task_aggregations"]) :
              LET row == store["task_aggregations"][n]
                  pair == args.groupByData
              IN IF pair.k = "obj"
                 THEN /\ row["group_by_field"] = BindParam(Get(pair, "field"))
                      /\ row["group_by_value"] = BindParam(Get(pair, "value"))
                 ELSE /\ row["group_by_field"] = SNull
                      /\ row["group_by_value"] = SNull

\* Whether every statement issued among the first n events has settled
\* among them.
AllSettled(n) ==
    Cardinality({m \in 1..n : log[m].ev = "issue"})
        = Cardinality({m \in 1..n : log[m].ev \in {"ok", "err"}})

\* C15: in a run of main at most one statement is in flight; a statement is
\* issued only when the one before has settled (the event after an issue is
\* its own completion); while a query is out no statement is in flight and no
\* ingest method is running; and the query of a pass is sent only after the
\* result of the pass before has arrived and every statement issued so far has
\* settled.
C15_NoOverlap ==
    /\ Len(inflight) <= 1
    /\ mainpc = "query" => inflight = <<>> /\ pc = "idle"
    /\ \A n \in 1..Len(log) :
          /\ log[n].ev = "issue" =>
                /\ AllSettled(n - 1)
                /\ n < Len(log) =>
                      /\ log[n + 1].ev \in {"ok", "err"}
                      /\ log[n + 1].table = log[n].table
                      /\ log[n + 1].i = log[n].i /\ log[n + 1].j = log[n].j
          /\ log[n].ev = "query" =>
                /\ AllSettled(n - 1)
                /\ log[n].i > 1 =>
                      \E m \in 1..(n - 1) : log[m] = MainEv("result", log[n].i - 1)
                /\ \A m \in (n + 1)..Len(log) :
                      log[m].ev = "issue" =>
                          \E r \in (n + 1)..(m - 1) : log[r] = MainEv("result", log[n].i)

\* C15 witness: the query of the second pass is out after the first pass
\* wrote a task and its two activities.
C15_Witness ==
    /\ mainpc = "query" /\ k = 2
    /\ Len(store["tasks"]) = 1
    /\ Len(store["task_activities"]) = 2

(***************************************************************************)
(* Any sequence of calls of the five methods that write.                   *)
(***************************************************************************)
ActivitySamples ==
    { [agentSessionId |-> JStr("S1"), activitiesData |-> <<AgentActivity1>>],
      [agentSessionId |-> JStr("S3"),
       activitiesData |-> <<AgentActivity2, AgentActivity1>>] }

\* createTables called again on the initialized store.
createTables ==
    /\ CanCall
    /\ runs < MaxCalls
    /\ op' = "createTables"
    /\ args' = [tasksData |-> <<>>]
    /\ NextCreateStep(1, <<>>)
    /\ chan' = chan
    /\ snap' = store
    /\ runs' = runs + 1
    /\ UNCHANGED <<store, now>>
    /\ UNCHANGED mainVars

\* insertAgentActivities called on its own.
insertAgentActivities ==
    /\ CanCall
    /\ runs < MaxCalls
    /\ \E a \in ActivitySamples : StartAgentActivities(a, <<>>)
    /\ snap' = store
    /\ runs' = runs + 1
    /\ UNCHANGED <<store, now>>
    /\ UNCHANGED mainVars

NextCalls ==
    \/ createTables
    \/ createTables_TableDone
    \/ insertTasks
    \/ insertAgentSessions
    \/ insertAgentActivities
    \/ insertAggregations
    \/ IngestStep

SpecCalls == Init /\ [][NextCalls]_vars

\* C16: no step removes an entity. In every step of every sequence of calls of
\* createTables, insertTasks, insertAgentSessions, insertAgentActivities and
\* insertAggregations each table keeps every primary key it has and does not
\* get fewer rows, and a step of createTables leaves the store as it is.
C16_NothingRemoved ==
    [][ /\ \A t \in DOMAIN store :
              /\ t \in DOMAIN store'
              /\ RowKeys(store[t], t) \subseteq RowKeys(store'[t], t)
              /\ Len(store[t]) <= Len(store'[t])
        /\ op' = "createTables" => store' = store ]_vars

\* C16 witness: createTables has returned, all five of its statements run, on
\* a store that holds the task and the two activities of an earlier call.
C16_Witness ==
    /\ op = "createTables" /\ pc = "idle" /\ outcome = "ok"
    /\ runs = 2
    /\ Len(store["tasks"]) = 1
    /\ Len(store["task_activities"]) = 2
    /\ \E n \in 1..Len(log) : log[n] = Ev("ok", "task_aggregations", 5, 0)

\* The top-level records of the result of pass n: the tasks of taskDetails
\* (passes 1 and 3), the agentSessions of agentSession (pass 2); none when the
\* result has no such list.
RecordsOf(res, n) ==
    LET root == IF n = 2 THEN "agentSession" ELSE "taskDetails"
        list == IF n = 2 THEN "agentSessions" ELSE "tasks"
    IN IF res.k = "obj" /\ root \in DOMAIN res.v /\ res.v[root].k = "obj"
          /\ list \in DOMAIN res.v[root].v /\ res.v[root].v[list].k = "arr"
       THEN res.v[root].v[list].v
       ELSE <<>>

\* The last pass that reported its count did so for the result still held:
\* the next query is out, or the third pass is over.
JustReported ==
    /\ Len(counts) >= 1
    /\ \/ mainpc = "query" /\ k = Len(counts) + 1
       \/ Len(counts) = 3

\* C17: the count a pass reports is the number of top-level records of its
\* result, whatever the number of rows written for them, and a pass whose
\* result has no record reports 0 having issued no statement (the event
\* before its return is the arrival of its result).
C17_CountsTopLevel ==
    JustReported =>
        LET n == Len(counts)
            records == RecordsOf(result, n)
            last == IF n = 3 THEN CHOOSE m \in 1..Len(log) :
                                      /\ log[m].ev \in {"close", "exit"} => FALSE
                                      /\ \A x \in (m + 1)..Len(log) :
                                            log[x].ev \in {"close", "exit"}
                    ELSE Len(log) - 1
        IN /\ counts[n] = Len(records)
           /\ records = <<>> => counts[n] = 0 /\ log[last] = MainEv("result", n)

\* C17 witness: the run is over; the first pass reported 1 task and wrote two
\* activities, the third reported 2 tasks and wrote one row.
C17_Witness ==
    /\ mainpc = "exited" /\ exitCode = 0
    /\ counts[1] = 1 /\ Len(store["task_activities"]) = 2
    /\ counts[3] = 2 /\ Len(store["task_aggregations"]) = 1

\* C17 witness of the empty case: the second pass got no session, reported 0,
\* and the third query is out.
C17_WitnessEmpty ==
    /\ mainpc = "query" /\ k = 3
    /\ counts[2] = 0
    /\ Len(store["tasks"]) >= 1

\* Whether the channelInfo of session ii yields no channel: the field is
\* absent, null, a scalar, or an empty list.
NoChannel(ii) ==
    LET channelInfo == Get(args.sessionsData[ii], "channelInfo")
    IN \/ channelInfo.k \in {"undefined", "null", "str", "num", "bool"}
       \/ channelInfo.k = "arr" /\ channelInfo.v = <<>>

\* C18: channel normalization is total. For every session of a call of
\* insertAgentSessions, whatever the shape of its channelInfo, the field
\* lookups on the normalized value are defined; a call in which no write
\* failed returns, having written exactly one agent_sessions row per session;
\* and a session that yields no channel has NULL in the four channel columns
\* and no agent_activities write.
C18_NormalizationTotal ==
    (op = "insertAgentSessions" /\ runs = 1) =>
        /\ \A ii \in 1..Len(args.sessionsData) :
              ~Throws(NormalizeChannelInfo(args.sessionsData[ii]))
        /\ (pc = "idle" /\ \A n \in 1..Len(log) : log[n].ev # "err") =>
              /\ outcome = "ok"
              /\ \A ii \in 1..Len(args.sessionsData) :
                    /\ Cardinality({n \in 1..Len(log) :
                                       log[n] = Ev("ok", "agent_sessions", ii, 0)}) = 1
                    /\ NoChannel(ii) =>
                          /\ ActivityEventsOf(ii) = {}
                          /\ LastOfItsId(ii) =>
                                \E n \in 1..Len(store["agent_sessions"]) :
                                    LET row == store["agent_sessions"][n]
                                    IN /\ row["agent_session_id"]
                                             = BindParam(Get(args.sessionsData[ii],
                                                             "agentSessionId"))
                                       /\ \A c \in ChannelColumns : row[c] = SNull

====
